---- MODULE Spec2Model ----
(***************************************************************************)
(* Model of the EntitySystem namespace of src/src/entitysystem.cpp: a      *)
(* fixed-capacity pool of grid-bound entities (EntityData) with the        *)
(* operations initialize, create_entity, kill_entity and move_entity and   *)
(* the helpers is_valid_position, is_occupied, is_traversable and          *)
(* get_new_position.                                                       *)
(***************************************************************************)
EXTENDS Integers, FiniteSets, Sequences, TLC

\* Pool capacity and grid dimensions (scaled down for model checking).
MAX_ENTITIES == 2
GRID_WIDTH == 2
GRID_HEIGHT == 2

\* The tile map's second dimension; kept equal to the grid's.
WORLD_HEIGHT == GRID_HEIGHT

\* data is the EntityData, map the tile map; freed and oob are history
\* variables (the last id freed, an index out of bounds so far), and trace is
\* the list of calls made so far where a specification records them.
VARIABLES data, map, freed, oob, trace

vars == <<data, map, freed, oob, trace>>

Ids == 0 .. (MAX_ENTITIES - 1)
Xs == 0 .. (GRID_WIDTH - 1)
Ys == 0 .. (GRID_HEIGHT - 1)

\* std::optional<int>: the empty set is std::nullopt, {e} holds e.
nullopt == {}
Some(e) == {e}
has_value(o) == o # {}

Pos(px, py) == [x |-> px, y |-> py]

\* The values of the Direction enum, and one value outside it.
Directions == {"NORTH", "EAST", "SOUTH", "WEST", "OTHER"}

\* Positions callers pass to create_entity: every cell and the cells just
\* outside each edge of the grid.
InputPositions ==
    { Pos(px, py) : px \in Xs, py \in Ys }
        \cup { Pos(-1, 0), Pos(GRID_WIDTH, 0), Pos(0, -1), Pos(0, GRID_HEIGHT) }

\* Tile maps: every tile traversable except the tiles in walls.
TileMap(walls) ==
    [px \in Xs |-> [py \in 0 .. (WORLD_HEIGHT - 1) |->
        [traversable |-> (<<px, py>> \notin walls)]]]

TileMaps == { TileMap({<<1, 1>>}) }

\* ---------------------------------------------------------------- helpers

is_valid_position(pos) ==
    pos.x >= 0 /\ pos.x < GRID_WIDTH /\ pos.y >= 0 /\ pos.y < GRID_HEIGHT

\* is_occupied without the has_value test of the cell.
is_occupied_never(d, pos) ==
    is_valid_position(pos) /\ FALSE

is_occupied(d, pos) ==
    is_valid_position(pos) /\ has_value(d.grid[pos.x][pos.y])

\* is_traversable without the is_occupied test.
is_traversable_no_occupancy(d, m, pos) ==
    IF is_valid_position(pos)
    THEN m[pos.x][pos.y].traversable
    ELSE FALSE

\* is_traversable without the look at the tile.
is_traversable_no_tile(d, m, pos) ==
    is_valid_position(pos) /\ ~is_occupied(d, pos)

is_traversable(d, m, pos) ==
    IF is_valid_position(pos) /\ ~is_occupied(d, pos)
    THEN m[pos.x][pos.y].traversable
    ELSE FALSE

\* get_new_position with EAST and WEST as on a conventional compass
\* (EAST increases x).
get_new_position_compass(current_pos, dir) ==
    CASE dir = "NORTH" -> Pos(current_pos.x, current_pos.y - 1)
      [] dir = "EAST"  -> Pos(current_pos.x + 1, current_pos.y)
      [] dir = "SOUTH" -> Pos(current_pos.x, current_pos.y + 1)
      [] dir = "WEST"  -> Pos(current_pos.x - 1, current_pos.y)
      [] OTHER         -> current_pos

\* get_new_position with SOUTH moving the same way as NORTH.
get_new_position_south_up(current_pos, dir) ==
    CASE dir = "NORTH" -> Pos(current_pos.x, current_pos.y - 1)
      [] dir = "EAST"  -> Pos(current_pos.x - 1, current_pos.y)
      [] dir = "SOUTH" -> Pos(current_pos.x, current_pos.y - 1)
      [] dir = "WEST"  -> Pos(current_pos.x + 1, current_pos.y)
      [] OTHER         -> current_pos

get_new_position(current_pos, dir) ==
    CASE dir = "NORTH" -> Pos(current_pos.x, current_pos.y - 1)
      [] dir = "EAST"  -> Pos(current_pos.x - 1, current_pos.y)
      [] dir = "SOUTH" -> Pos(current_pos.x, current_pos.y + 1)
      [] dir = "WEST"  -> Pos(current_pos.x + 1, current_pos.y)
      [] OTHER         -> current_pos

\* ------------------------------------------------------------- operations

\* A default-constructed EntityData: the counters, and whatever the arrays
\* hold before initialize runs (junk is the value left in alive_indices,
\* which initialize does not write).
EntityDataFresh(junk) ==
    [ positions     |-> [i \in Ids |-> Pos(junk, junk)],
      alive_indices |-> [i \in Ids |-> junk],
      dead_indices  |-> [i \in Ids |-> junk],
      grid          |-> [px \in Xs |-> [py \in Ys |-> Some(junk)]],
      alive_count   |-> 0,
      dead_count    |-> MAX_ENTITIES ]

initialize(d) ==
    [d EXCEPT !.dead_indices = [i \in Ids |-> i],
              !.positions = [i \in Ids |-> Pos(0, 0)],
              !.grid = [px \in Xs |-> [py \in Ys |-> nullopt]]]

\* create_entity without the decrement of dead_count.
create_entity_no_decrement(d, m, pos) ==
    IF d.dead_count = 0 \/ ~is_traversable(d, m, pos)
    THEN [data |-> d, ret |-> nullopt, oob |-> FALSE]
    ELSE
        LET entity_idx == d.dead_indices[d.dead_count - 1]
            inb == d.alive_count \in Ids
            d2 == IF inb
                  THEN [d EXCEPT !.alive_indices[d.alive_count] = entity_idx,
                                 !.alive_count = @ + 1]
                  ELSE [d EXCEPT !.alive_count = @ + 1]
            d3 == [d2 EXCEPT !.positions[entity_idx] = pos,
                             !.grid[pos.x][pos.y] = Some(entity_idx)]
        IN  [data |-> d3, ret |-> Some(entity_idx), oob |-> ~inb]

\* create_entity that takes the id off the free list before it checks pos.
create_entity_pop_first(d, m, pos) ==
    IF d.dead_count = 0
    THEN [data |-> d, ret |-> nullopt, oob |-> FALSE]
    ELSE
        LET entity_idx == d.dead_indices[d.dead_count - 1]
            d1 == [d EXCEPT !.dead_count = @ - 1]
        IN  IF ~is_traversable(d1, m, pos)
            THEN [data |-> d1, ret |-> nullopt, oob |-> FALSE]
            ELSE
                LET inb == d1.alive_count \in Ids
                    d2 == IF inb
                          THEN [d1 EXCEPT !.alive_indices[d1.alive_count] = entity_idx,
                                          !.alive_count = @ + 1]
                          ELSE [d1 EXCEPT !.alive_count = @ + 1]
                    d3 == [d2 EXCEPT !.positions[entity_idx] = pos,
                                     !.grid[pos.x][pos.y] = Some(entity_idx)]
                IN  [data |-> d3, ret |-> Some(entity_idx), oob |-> ~inb]

\* create_entity that takes the id at the bottom of the free list.
create_entity_bottom(d, m, pos) ==
    IF d.dead_count = 0 \/ ~is_traversable(d, m, pos)
    THEN [data |-> d, ret |-> nullopt, oob |-> FALSE]
    ELSE
        LET entity_idx == d.dead_indices[0]
            d1 == [d EXCEPT !.dead_count = @ - 1]
            inb == d1.alive_count \in Ids
            d2 == IF inb
                  THEN [d1 EXCEPT !.alive_indices[d1.alive_count] = entity_idx,
                                  !.alive_count = @ + 1]
                  ELSE [d1 EXCEPT !.alive_count = @ + 1]
            d3 == [d2 EXCEPT !.positions[entity_idx] = pos,
                             !.grid[pos.x][pos.y] = Some(entity_idx)]
        IN  [data |-> d3, ret |-> Some(entity_idx), oob |-> ~inb]

\* The result of create_entity: the pool after the call, the returned
\* optional, and whether an array was indexed outside its bounds.
create_entity(d, m, pos) ==
    IF d.dead_count = 0 \/ ~is_traversable(d, m, pos)
    THEN [data |-> d, ret |-> nullopt, oob |-> FALSE]
    ELSE
        LET entity_idx == d.dead_indices[d.dead_count - 1]
            d1 == [d EXCEPT !.dead_count = @ - 1]
            inb == d1.alive_count \in Ids
            d2 == IF inb
                  THEN [d1 EXCEPT !.alive_indices[d1.alive_count] = entity_idx,
                                  !.alive_count = @ + 1]
                  ELSE [d1 EXCEPT !.alive_count = @ + 1]
            d3 == [d2 EXCEPT !.positions[entity_idx] = pos,
                             !.grid[pos.x][pos.y] = Some(entity_idx)]
        IN  [data |-> d3, ret |-> Some(entity_idx), oob |-> ~inb]

\* kill_entity's matched branch with the push written one slot too high
\* (dead_count incremented before the write).
kill_match_late_push(d, entity_idx, i) ==
    LET pos == d.positions[entity_idx]
        ging == is_valid_position(pos)
        d1 == IF ging
              THEN [d EXCEPT !.grid[pos.x][pos.y] = nullopt]
              ELSE d
        d2 == [d1 EXCEPT !.alive_indices[i] =
                             d1.alive_indices[d1.alive_count - 1],
                         !.alive_count = @ - 1]
        dinb == (d2.dead_count + 1) \in Ids
        d3 == IF dinb
              THEN [d2 EXCEPT !.dead_indices[d2.dead_count + 1] = entity_idx,
                              !.dead_count = @ + 1]
              ELSE [d2 EXCEPT !.dead_count = @ + 1]
    IN  [data |-> d3, oob |-> ~ging \/ ~dinb]

\* kill_entity's matched branch without the swap of the last alive entry
\* into slot i.
kill_match_no_swap(d, entity_idx, i) ==
    LET pos == d.positions[entity_idx]
        ging == is_valid_position(pos)
        d1 == IF ging
              THEN [d EXCEPT !.grid[pos.x][pos.y] = nullopt]
              ELSE d
        d2 == [d1 EXCEPT !.alive_count = @ - 1]
        dinb == d2.dead_count \in Ids
        d3 == IF dinb
              THEN [d2 EXCEPT !.dead_indices[d2.dead_count] = entity_idx,
                              !.dead_count = @ + 1]
              ELSE [d2 EXCEPT !.dead_count = @ + 1]
    IN  [data |-> d3, oob |-> ~ging \/ ~dinb]

\* kill_entity's matched branch that removes the last alive entry instead of
\* the entry in slot i.
kill_match_drop_last(d, entity_idx, i) ==
    LET pos == d.positions[entity_idx]
        d1 == [d EXCEPT !.grid[pos.x][pos.y] = nullopt]
        d2 == [d1 EXCEPT !.alive_count = @ - 1]
        d3 == [d2 EXCEPT !.dead_indices[d2.dead_count] = entity_idx,
                         !.dead_count = @ + 1]
    IN  [data |-> d3, oob |-> FALSE]

\* kill_entity's matched branch that also zeroes positions[entity_idx].
kill_match_reset_position(d, entity_idx, i) ==
    LET pos == d.positions[entity_idx]
        d1 == [d EXCEPT !.grid[pos.x][pos.y] = nullopt]
        d2 == [d1 EXCEPT !.alive_indices[i] =
                             d1.alive_indices[d1.alive_count - 1],
                         !.alive_count = @ - 1]
        d3 == [d2 EXCEPT !.dead_indices[d2.dead_count] = entity_idx,
                         !.dead_count = @ + 1,
                         !.positions[entity_idx] = Pos(0, 0)]
    IN  [data |-> d3, oob |-> FALSE]

\* The branch of kill_entity's loop taken when alive_indices[i] is
\* entity_idx: the pool after it, and whether it indexed outside an array.
kill_match(d, entity_idx, i) ==
    LET pos == d.positions[entity_idx]
        ging == is_valid_position(pos)
        d1 == IF ging
              THEN [d EXCEPT !.grid[pos.x][pos.y] = nullopt]
              ELSE d
        d2 == [d1 EXCEPT !.alive_indices[i] =
                             d1.alive_indices[d1.alive_count - 1],
                         !.alive_count = @ - 1]
        dinb == d2.dead_count \in Ids
        d3 == IF dinb
              THEN [d2 EXCEPT !.dead_indices[d2.dead_count] = entity_idx,
                              !.dead_count = @ + 1]
              ELSE [d2 EXCEPT !.dead_count = @ + 1]
    IN  [data |-> d3, oob |-> ~ging \/ ~dinb]

\* kill_entity's for loop from index i on (it keeps scanning after a
\* match); bad records an access outside an array's bounds so far.
RECURSIVE kill_loop(_, _, _, _)
kill_loop(d, entity_idx, i, bad) ==
    IF ~(i < d.alive_count)
    THEN [data |-> d, oob |-> bad]
    ELSE IF d.alive_indices[i] = entity_idx
    THEN LET r == kill_match(d, entity_idx, i)
         IN  kill_loop(r.data, entity_idx, i + 1, bad \/ r.oob)
    ELSE kill_loop(d, entity_idx, i + 1, bad)

\* kill_entity that empties the grid cell of positions[entity_idx] before
\* it looks for the id in alive_indices.
kill_entity_clear_first(d, entity_idx) ==
    LET pos == d.positions[entity_idx]
    IN  kill_loop([d EXCEPT !.grid[pos.x][pos.y] = nullopt], entity_idx, 0, FALSE)

kill_entity(d, entity_idx) == kill_loop(d, entity_idx, 0, FALSE)

\* move_entity without the clearing of the entity's old cell.
move_entity_keep_old(d, m, entity_idx, dir) ==
    LET current == d.positions[entity_idx]
        new_pos == get_new_position(current, dir)
    IN  IF is_traversable(d, m, new_pos)
        THEN
            LET d2 == [d EXCEPT !.grid[new_pos.x][new_pos.y] = Some(entity_idx)]
                d3 == [d2 EXCEPT !.positions[entity_idx] = new_pos]
            IN  [data |-> d3, moved |-> TRUE, oob |-> FALSE]
        ELSE [data |-> d, moved |-> FALSE, oob |-> FALSE]

\* move_entity that empties the entity's cell before it checks the target.
move_entity_clear_first(d, m, entity_idx, dir) ==
    LET current == d.positions[entity_idx]
        new_pos == get_new_position(current, dir)
        d1 == [d EXCEPT !.grid[current.x][current.y] = nullopt]
    IN  IF is_traversable(d1, m, new_pos)
        THEN
            LET d2 == [d1 EXCEPT !.grid[new_pos.x][new_pos.y] = Some(entity_idx)]
                d3 == [d2 EXCEPT !.positions[entity_idx] = new_pos]
            IN  [data |-> d3, moved |-> TRUE, oob |-> FALSE]
        ELSE [data |-> d1, moved |-> FALSE, oob |-> FALSE]

\* move_entity without the update of positions[entity_idx].
move_entity_no_position(d, m, entity_idx, dir) ==
    LET current == d.positions[entity_idx]
        new_pos == get_new_position(current, dir)
    IN  IF is_traversable(d, m, new_pos)
        THEN
            LET d1 == [d EXCEPT !.grid[current.x][current.y] = nullopt]
                d2 == [d1 EXCEPT !.grid[new_pos.x][new_pos.y] = Some(entity_idx)]
            IN  [data |-> d2, moved |-> TRUE, oob |-> FALSE]
        ELSE [data |-> d, moved |-> FALSE, oob |-> FALSE]

\* The result of move_entity: the pool after the call and the returned bool.
move_entity(d, m, entity_idx, dir) ==
    LET current == d.positions[entity_idx]
        new_pos == get_new_position(current, dir)
    IN  IF is_traversable(d, m, new_pos)
        THEN
            LET cinb == is_valid_position(current)
                d1 == IF cinb
                      THEN [d EXCEPT !.grid[current.x][current.y] = nullopt]
                      ELSE d
                d2 == [d1 EXCEPT !.grid[new_pos.x][new_pos.y] = Some(entity_idx)]
                d3 == [d2 EXCEPT !.positions[entity_idx] = new_pos]
            IN  [data |-> d3, moved |-> TRUE, oob |-> ~cinb]
        ELSE [data |-> d, moved |-> FALSE, oob |-> FALSE]

\* ------------------------------------------------------------ bookkeeping

\* The ids in alive_indices[0 .. alive_count) of pool d.
AliveSlots(d) == 0 .. (d.alive_count - 1)
DeadSlots(d) == 0 .. (d.dead_count - 1)
IsAlive(d, e) == \E i \in AliveSlots(d) : d.alive_indices[i] = e
AliveIds(d) == { e \in Ids : IsAlive(d, e) }

\* History of the free list's last push: the id most recently freed by a
\* kill_entity that found it alive, and whether it is still waiting to be
\* reused (no successful create_entity and no other kill_entity since).
NoneFreed == [id |-> nullopt, pending |-> FALSE]

\* ----------------------------------------------------------------- system

Init ==
    /\ \E junk \in Ids : data = initialize(EntityDataFresh(junk))
    /\ map \in TileMaps
    /\ freed = NoneFreed
    /\ oob = FALSE
    /\ trace = << >>

CreateEntity ==
    \E pos \in InputPositions :
        LET r == create_entity(data, map, pos) IN
        /\ data' = r.data
        /\ oob' = (oob \/ r.oob)
        /\ freed' = IF has_value(r.ret) THEN [freed EXCEPT !.pending = FALSE]
                    ELSE freed
        /\ UNCHANGED <<map, trace>>

KillEntity ==
    \E entity_idx \in Ids :
        LET r == kill_entity(data, entity_idx) IN
        /\ data' = r.data
        /\ oob' = (oob \/ r.oob)
        /\ freed' = IF IsAlive(data, entity_idx)
                    THEN [id |-> Some(entity_idx), pending |-> TRUE]
                    ELSE NoneFreed
        /\ UNCHANGED <<map, trace>>

MoveEntity ==
    \E entity_idx \in AliveIds(data), dir \in Directions :
        LET r == move_entity(data, map, entity_idx, dir) IN
        /\ data' = r.data
        /\ oob' = (oob \/ r.oob)
        /\ UNCHANGED <<map, freed, trace>>

Next ==
    \/ CreateEntity
    \/ KillEntity
    \/ MoveEntity

Spec == Init /\ [][Next]_vars

\* ------------------------------------------------- pools of other sizes
\* The same functions for a pool whose capacity and grid dimensions are the
\* fields of a record w instead of MAX_ENTITIES, GRID_WIDTH and GRID_HEIGHT
\* above (get_new_position does not depend on them).

World(n, gw, gh) == [MAX_ENTITIES |-> n, GRID_WIDTH |-> gw, GRID_HEIGHT |-> gh]

IdsOf(w) == 0 .. (w.MAX_ENTITIES - 1)
XsOf(w) == 0 .. (w.GRID_WIDTH - 1)
YsOf(w) == 0 .. (w.GRID_HEIGHT - 1)
CellsOf(w) == { Pos(px, py) : px \in XsOf(w), py \in YsOf(w) }

TileMapOf(w, walls) ==
    [px \in XsOf(w) |-> [py \in YsOf(w) |->
        [traversable |-> (<<px, py>> \notin walls)]]]

is_valid_position_in(w, pos) ==
    pos.x >= 0 /\ pos.x < w.GRID_WIDTH /\ pos.y >= 0 /\ pos.y < w.GRID_HEIGHT

is_occupied_in(w, d, pos) ==
    is_valid_position_in(w, pos) /\ has_value(d.grid[pos.x][pos.y])

is_traversable_in(w, d, m, pos) ==
    IF is_valid_position_in(w, pos) /\ ~is_occupied_in(w, d, pos)
    THEN m[pos.x][pos.y].traversable
    ELSE FALSE

EntityDataFreshIn(w, junk) ==
    [ positions     |-> [i \in IdsOf(w) |-> Pos(junk, junk)],
      alive_indices |-> [i \in IdsOf(w) |-> junk],
      dead_indices  |-> [i \in IdsOf(w) |-> junk],
      grid          |-> [px \in XsOf(w) |-> [py \in YsOf(w) |-> Some(junk)]],
      alive_count   |-> 0,
      dead_count    |-> w.MAX_ENTITIES ]

initialize_in(w, d) ==
    [d EXCEPT !.dead_indices = [i \in IdsOf(w) |-> i],
              !.positions = [i \in IdsOf(w) |-> Pos(0, 0)],
              !.grid = [px \in XsOf(w) |-> [py \in YsOf(w) |-> nullopt]]]

\* create_entity_in without the decrement of dead_count.
create_entity_in_no_decrement(w, d, m, pos) ==
    IF d.dead_count = 0 \/ ~is_traversable_in(w, d, m, pos)
    THEN [data |-> d, ret |-> nullopt, oob |-> FALSE]
    ELSE
        LET entity_idx == d.dead_indices[d.dead_count - 1]
            inb == d.alive_count \in IdsOf(w)
            d2 == IF inb
                  THEN [d EXCEPT !.alive_indices[d.alive_count] = entity_idx,
                                 !.alive_count = @ + 1]
                  ELSE [d EXCEPT !.alive_count = @ + 1]
            d3 == [d2 EXCEPT !.positions[entity_idx] = pos,
                             !.grid[pos.x][pos.y] = Some(entity_idx)]
        IN  [data |-> d3, ret |-> Some(entity_idx), oob |-> ~inb]

create_entity_in(w, d, m, pos) ==
    IF d.dead_count = 0 \/ ~is_traversable_in(w, d, m, pos)
    THEN [data |-> d, ret |-> nullopt, oob |-> FALSE]
    ELSE
        LET entity_idx == d.dead_indices[d.dead_count - 1]
            d1 == [d EXCEPT !.dead_count = @ - 1]
            inb == d1.alive_count \in IdsOf(w)
            d2 == IF inb
                  THEN [d1 EXCEPT !.alive_indices[d1.alive_count] = entity_idx,
                                  !.alive_count = @ + 1]
                  ELSE [d1 EXCEPT !.alive_count = @ + 1]
            d3 == [d2 EXCEPT !.positions[entity_idx] = pos,
                             !.grid[pos.x][pos.y] = Some(entity_idx)]
        IN  [data |-> d3, ret |-> Some(entity_idx), oob |-> ~inb]

kill_match_in(w, d, entity_idx, i) ==
    LET pos == d.positions[entity_idx]
        ging == is_valid_position_in(w, pos)
        d1 == IF ging
              THEN [d EXCEPT !.grid[pos.x][pos.y] = nullopt]
              ELSE d
        d2 == [d1 EXCEPT !.alive_indices[i] =
                             d1.alive_indices[d1.alive_count - 1],
                         !.alive_count = @ - 1]
        dinb == d2.dead_count \in IdsOf(w)
        d3 == IF dinb
              THEN [d2 EXCEPT !.dead_indices[d2.dead_count] = entity_idx,
                              !.dead_count = @ + 1]
              ELSE [d2 EXCEPT !.dead_count = @ + 1]
    IN  [data |-> d3, oob |-> ~ging \/ ~dinb]

RECURSIVE kill_loop_in(_, _, _, _, _)
kill_loop_in(w, d, entity_idx, i, bad) ==
    IF ~(i < d.alive_count)
    THEN [data |-> d, oob |-> bad]
    ELSE IF d.alive_indices[i] = entity_idx
    THEN LET r == kill_match_in(w, d, entity_idx, i)
         IN  kill_loop_in(w, r.data, entity_idx, i + 1, bad \/ r.oob)
    ELSE kill_loop_in(w, d, entity_idx, i + 1, bad)

kill_entity_in(w, d, entity_idx) == kill_loop_in(w, d, entity_idx, 0, FALSE)

move_entity_in(w, d, m, entity_idx, dir) ==
    LET current == d.positions[entity_idx]
        new_pos == get_new_position(current, dir)
    IN  IF is_traversable_in(w, d, m, new_pos)
        THEN
            LET cinb == is_valid_position_in(w, current)
                d1 == IF cinb
                      THEN [d EXCEPT !.grid[current.x][current.y] = nullopt]
                      ELSE d
                d2 == [d1 EXCEPT !.grid[new_pos.x][new_pos.y] = Some(entity_idx)]
                d3 == [d2 EXCEPT !.positions[entity_idx] = new_pos]
            IN  [data |-> d3, moved |-> TRUE, oob |-> ~cinb]
        ELSE [data |-> d, moved |-> FALSE, oob |-> FALSE]

AliveIdsIn(w, d) == { e \in IdsOf(w) : IsAlive(d, e) }

\* ----------------------------------------------------------------- claims

\* The pool as the properties below read it.
PosCells == { Pos(px, py) : px \in Xs, py \in Ys }
InBounds(pos) == pos.x \in Xs /\ pos.y \in Ys
GridAt(d, pos) == d.grid[pos.x][pos.y]

\* pos cannot be entered: outside the grid, or a cell holding an id, or a
\* tile that is not traversable.
NotTraversable(d, m, pos) ==
    \/ ~InBounds(pos)
    \/ GridAt(d, pos) # nullopt
    \/ ~m[pos.x][pos.y].traversable

\* How often id e occurs in alive_indices[0 .. alive_count) and in
\* dead_indices[0 .. dead_count).
Occurrences(d, e) ==
    Cardinality({ i \in AliveSlots(d) : d.alive_indices[i] = e })
        + Cardinality({ j \in DeadSlots(d) : d.dead_indices[j] = e })

\* Everything of pool b except grid cell pos / position of id e equals a.
SameGridExcept(a, b, cells) ==
    \A q \in PosCells \ cells : GridAt(b, q) = GridAt(a, q)
SamePositionsExcept(a, b, ids) ==
    \A e \in Ids \ ids : b.positions[e] = a.positions[e]
SameLists(a, b) ==
    /\ b.alive_indices = a.alive_indices
    /\ b.alive_count = a.alive_count
    /\ b.dead_indices = a.dead_indices
    /\ b.dead_count = a.dead_count

\* Some id was killed after being created somewhere other than (0,0): it is
\* dead and its stale position is not the one initialize wrote.
SomeIdWasKilled ==
    \E e \in Ids \ AliveIds(data) : data.positions[e] # Pos(0, 0)

\* C1: in every reachable state alive_count + dead_count = MAX_ENTITIES and
\* every id occurs exactly once in alive_indices[0..alive_count) together
\* with dead_indices[0..dead_count).
C1_Partition ==
    /\ data.alive_count + data.dead_count = MAX_ENTITIES
    /\ data.alive_count \in 0 .. MAX_ENTITIES
    /\ \A e \in Ids : Occurrences(data, e) = 1

\* C1 witness: both lists are non-empty and the free list's top is an id
\* that a kill pushed there (not the id initialize put in that slot).
C1_Witness ==
    /\ data.alive_count >= 1
    /\ data.dead_count >= 1
    /\ data.dead_indices[data.dead_count - 1] # data.dead_count - 1

\* C2: grid and positions agree in both directions: every alive id is in
\* the grid cell of its position, and every occupied cell holds an alive id
\* whose position is that cell.
C2_GridPositions ==
    /\ \A e \in AliveIds(data) :
          /\ InBounds(data.positions[e])
          /\ GridAt(data, data.positions[e]) = Some(e)
    /\ \A p \in PosCells :
          has_value(GridAt(data, p)) =>
              \E e \in AliveIds(data) :
                  GridAt(data, p) = Some(e) /\ data.positions[e] = p

\* C2 witness: an entity is alive away from (0,0) while an id that was
\* created and killed keeps a stale position.
C2_Witness ==
    /\ SomeIdWasKilled
    /\ \E e \in AliveIds(data) : data.positions[e] # Pos(0, 0)

\* C3: no two distinct alive entities have the same position.
C3_DistinctPositions ==
    \A e1, e2 \in AliveIds(data) :
        e1 # e2 => data.positions[e1] # data.positions[e2]

\* C3 witness: two entities are alive next to each other and the move of
\* one onto the other's cell is refused.
C3_Witness ==
    \E e1, e2 \in AliveIds(data), dir \in Directions :
        /\ e1 # e2
        /\ get_new_position(data.positions[e1], dir) = data.positions[e2]
        /\ ~move_entity(data, map, e1, dir).moved

\* C4: create_entity returns empty exactly when dead_count = 0 or pos is
\* not traversable, and a create that returns empty leaves the pool as it was.
C4_CreateFails ==
    \A pos \in InputPositions :
        LET r == create_entity(data, map, pos) IN
        /\ (r.ret = nullopt) <=>
               (data.dead_count = 0 \/ NotTraversable(data, map, pos))
        /\ (r.ret = nullopt) => (r.data = data)

\* C4 witness: with free ids left, a create on an occupied cell, one on a
\* non-traversable tile and one outside the grid all return empty.
C4_Witness ==
    /\ data.dead_count >= 1
    /\ \E pos \in PosCells :
          has_value(GridAt(data, pos))
              /\ create_entity(data, map, pos).ret = nullopt
    /\ \E pos \in PosCells :
          ~map[pos.x][pos.y].traversable
              /\ create_entity(data, map, pos).ret = nullopt
    /\ \E pos \in InputPositions \ PosCells :
          create_entity(data, map, pos).ret = nullopt

\* C5: a successful create_entity returns the id on top of dead_indices,
\* decrements dead_count, appends the id at alive_indices[old alive_count],
\* increments alive_count, sets positions[id] = pos and grid[pos] = id, and
\* leaves every other grid cell and every other id's position unchanged.
C5_CreateSucceeds ==
    \A pos \in InputPositions :
        LET r == create_entity(data, map, pos) IN
        has_value(r.ret) =>
            LET id == data.dead_indices[data.dead_count - 1] IN
            /\ r.ret = Some(id)
            /\ r.data.dead_count = data.dead_count - 1
            /\ r.data.alive_indices[data.alive_count] = id
            /\ r.data.alive_count = data.alive_count + 1
            /\ r.data.positions[id] = pos
            /\ GridAt(r.data, pos) = Some(id)
            /\ SameGridExcept(data, r.data, {pos})
            /\ SamePositionsExcept(data, r.data, {id})

\* C5 witness: one entity is alive, an id was killed before, and a create
\* succeeds.
C5_Witness ==
    /\ data.alive_count >= 1
    /\ SomeIdWasKilled
    /\ \E pos \in InputPositions : has_value(create_entity(data, map, pos).ret)

\* C6: LIFO recycling: while the id freed by the last kill_entity is still
\* pending (no successful create and no other kill since, any number of
\* failed creates and of moves), every create_entity that succeeds returns
\* that id.
C6_LifoRecycling ==
    freed.pending =>
        \A pos \in InputPositions :
            LET r == create_entity(data, map, pos) IN
            has_value(r.ret) => r.ret = freed.id

\* C6 witness: the pending id was removed from a slot that was not the last
\* one (the last entry was swapped into its slot, so the slot just past the
\* alive entries does not hold the freed id), and a create succeeds.
C6_Witness ==
    /\ freed.pending
    /\ data.alive_count >= 1
    /\ Some(data.alive_indices[data.alive_count]) # freed.id
    /\ \E pos \in InputPositions : has_value(create_entity(data, map, pos).ret)

\* C7: move_entity of an alive id towards a position that is not
\* traversable returns false and changes nothing.
C7_MoveFails ==
    \A e \in AliveIds(data), dir \in Directions :
        LET r == move_entity(data, map, e, dir)
            new_pos == get_new_position(data.positions[e], dir)
        IN  NotTraversable(data, map, new_pos) =>
                /\ r.moved = FALSE
                /\ r.data = data

\* C7 witness: alive entities have a neighbour cell holding another entity,
\* one outside the grid and one on a non-traversable tile, and the moves
\* towards them fail.
C7_Witness ==
    /\ \E e \in AliveIds(data), dir \in Directions \ {"OTHER"} :
          LET n == get_new_position(data.positions[e], dir) IN
          InBounds(n) /\ has_value(GridAt(data, n))
              /\ ~move_entity(data, map, e, dir).moved
    /\ \E e \in AliveIds(data), dir \in Directions :
          ~InBounds(get_new_position(data.positions[e], dir))
              /\ ~move_entity(data, map, e, dir).moved
    /\ \E e \in AliveIds(data), dir \in Directions :
          LET n == get_new_position(data.positions[e], dir) IN
          InBounds(n) /\ ~map[n.x][n.y].traversable
              /\ ~move_entity(data, map, e, dir).moved

\* C8: move_entity of an alive id towards a traversable position returns
\* true, empties the old cell, puts the id in the new cell, sets
\* positions[id] to it and changes nothing else.
C8_MoveSucceeds ==
    \A e \in AliveIds(data), dir \in Directions :
        LET r == move_entity(data, map, e, dir)
            old_pos == data.positions[e]
            new_pos == get_new_position(old_pos, dir)
        IN  ~NotTraversable(data, map, new_pos) =>
                /\ r.moved = TRUE
                /\ GridAt(r.data, old_pos) = nullopt
                /\ GridAt(r.data, new_pos) = Some(e)
                /\ r.data.positions[e] = new_pos
                /\ SameLists(data, r.data)
                /\ SameGridExcept(data, r.data, {old_pos, new_pos})
                /\ SamePositionsExcept(data, r.data, {e})

\* C8 witness: two entities are alive and one of them can move.
C8_Witness ==
    /\ data.alive_count >= 2
    /\ \E e \in AliveIds(data), dir \in Directions :
          move_entity(data, map, e, dir).moved

\* C9: kill_entity of an id that is not alive changes nothing, and killing
\* an id twice in a row leaves the pool as killing it once does.
C9_KillNotAlive ==
    /\ \A id \in Ids \ AliveIds(data) : kill_entity(data, id).data = data
    /\ \A id \in Ids :
          kill_entity(kill_entity(data, id).data, id).data
              = kill_entity(data, id).data

\* C9 witness: an id was created and killed, and the cell of its stale
\* position now holds an alive entity, which a second kill must not remove.
C9_Witness ==
    \E e \in Ids \ AliveIds(data) :
        /\ data.positions[e] # Pos(0, 0)
        /\ has_value(GridAt(data, data.positions[e]))
        /\ kill_entity(data, e).data = data

\* C10: kill_entity of an alive id at slot i empties the grid cell of its
\* position, overwrites alive_indices[i] with the last alive entry,
\* decrements alive_count, pushes the id on dead_indices and increments
\* dead_count; every other alive id stays alive and every other grid cell is
\* unchanged.
C10_KillAlive ==
    \A i \in AliveSlots(data) :
        LET id == data.alive_indices[i]
            r == kill_entity(data, id).data
        IN  /\ GridAt(r, data.positions[id]) = nullopt
            /\ r.alive_indices[i] = data.alive_indices[data.alive_count - 1]
            /\ r.alive_count = data.alive_count - 1
            /\ r.dead_indices[data.dead_count] = id
            /\ r.dead_count = data.dead_count + 1
            /\ AliveIds(r) = AliveIds(data) \ {id}
            /\ SameGridExcept(data, r, {data.positions[id]})

\* C10 witness: two entities are alive, so killing the one in slot 0 moves
\* the last entry into its slot.
C10_Witness ==
    /\ data.alive_count >= 2
    /\ data.alive_indices[0] # data.alive_indices[data.alive_count - 1]
    /\ AliveIds(kill_entity(data, data.alive_indices[0]).data)
          = {data.alive_indices[data.alive_count - 1]}

\* C11: initialize resets all state whatever the pool was before the call:
\* afterwards dead_indices[i] = i for every i, alive_count = 0,
\* dead_count = MAX_ENTITIES, every position is (0,0) and every grid cell is
\* empty.
C11_InitializeResets ==
    LET r == initialize(data) IN
    /\ \A i \in Ids : r.dead_indices[i] = i
    /\ \A i \in Ids : r.positions[i] = Pos(0, 0)
    /\ \A p \in PosCells : GridAt(r, p) = nullopt
    /\ r.alive_count = 0
    /\ r.dead_count = MAX_ENTITIES

\* What one step does to the ids' states: an id that becomes alive is the
\* id a successful create_entity returned, and an id that stops being alive
\* is the argument of the kill_entity that was called.
LifecycleStep ==
    \A e \in Ids :
        /\ (~IsAlive(data, e) /\ IsAlive(data', e)) =>
               \E pos \in InputPositions :
                   LET r == create_entity(data, map, pos) IN
                   r.ret = Some(e) /\ data' = r.data
        /\ (IsAlive(data, e) /\ ~IsAlive(data', e)) =>
               data' = kill_entity(data, e).data

\* What each call does to the ids' states in pool d: a failed create_entity
\* and a move_entity change none, a successful create_entity only the
\* returned id's (from dead to alive), kill_entity only its argument's.
LifecycleCalls(d, m) ==
    /\ \A pos \in InputPositions :
          LET r == create_entity(d, m, pos) IN
          /\ r.ret \cap AliveIds(d) = {}
          /\ AliveIds(r.data) = AliveIds(d) \cup r.ret
    /\ \A id \in Ids :
          AliveIds(kill_entity(d, id).data) = AliveIds(d) \ {id}
    /\ \A e \in AliveIds(d), dir \in Directions :
          AliveIds(move_entity(d, m, e, dir).data) = AliveIds(d)

\* C13: every id is dead after initialization; in any step an id goes from
\* dead to alive only by a successful create_entity that returns it and from
\* alive to dead only by kill_entity called with it; move_entity, a failed
\* create_entity and kill_entity of another id never change whether an id is
\* alive.
C13_Lifecycle ==
    /\ AliveIds(data) = {}
    /\ []LifecycleCalls(data, map)
    /\ [][LifecycleStep]_vars

\* C13 witness: one id is alive and another id went through a whole cycle
\* (created, then killed), while a move of the alive one is possible.
C13_Witness ==
    /\ SomeIdWasKilled
    /\ \E e \in AliveIds(data), dir \in Directions :
          move_entity(data, map, e, dir).moved
    /\ \E e \in Ids \ AliveIds(data) : kill_entity(data, e).data = data

\* C14: get_new_position returns (x, y-1) for NORTH, (x, y+1) for SOUTH,
\* (x-1, y) for EAST, (x+1, y) for WEST and the position itself for any
\* other direction, for the positions callers pass and for every entity's
\* position; so move_entity with an unrecognized direction returns false and
\* changes nothing.
C14_NewPosition ==
    /\ \A pos \in InputPositions \cup { data.positions[e] : e \in Ids } :
          /\ get_new_position(pos, "NORTH") = Pos(pos.x, pos.y - 1)
          /\ get_new_position(pos, "SOUTH") = Pos(pos.x, pos.y + 1)
          /\ get_new_position(pos, "EAST") = Pos(pos.x - 1, pos.y)
          /\ get_new_position(pos, "WEST") = Pos(pos.x + 1, pos.y)
          /\ get_new_position(pos, "OTHER") = pos
    /\ \A e \in AliveIds(data) :
          LET r == move_entity(data, map, e, "OTHER") IN
          r.moved = FALSE /\ r.data = data

\* C14 witness: an entity that could move EAST (its x-1 neighbour is free
\* and traversable) is asked to move in an unrecognized direction.
C14_Witness ==
    \E e \in AliveIds(data) :
        /\ move_entity(data, map, e, "EAST").moved
        /\ move_entity(data, map, e, "EAST").data.positions[e]
              = Pos(data.positions[e].x - 1, data.positions[e].y)
        /\ ~move_entity(data, map, e, "OTHER").moved

\* A tile map with no tiles: reading any tile of it is an evaluation error,
\* so a result obtained with it was obtained without reading the tile map.
NoTiles == << >>

\* C15: is_traversable is true iff pos is in bounds, its grid cell is empty
\* and its tile is traversable; out of bounds is_occupied and is_traversable
\* are false; and for a position out of bounds or occupied the result is
\* false without a read of the tile map.
C15_Traversable ==
    \A pos \in InputPositions :
        /\ is_valid_position(pos) <=>
               (0 <= pos.x /\ pos.x < GRID_WIDTH /\ 0 <= pos.y /\ pos.y < GRID_HEIGHT)
        /\ is_traversable(data, map, pos) <=>
               (/\ InBounds(pos)
                /\ GridAt(data, pos) = nullopt
                /\ map[pos.x][pos.y].traversable)
        /\ ~InBounds(pos) =>
               (~is_occupied(data, pos) /\ ~is_traversable(data, map, pos))
        /\ (~InBounds(pos) \/ is_occupied(data, pos)) =>
               ~is_traversable(data, NoTiles, pos)

\* C15 witness: the grid has an occupied cell, a free traversable cell and
\* a free non-traversable one, and is_traversable tells them apart.
C15_Witness ==
    /\ \E pos \in PosCells :
          has_value(GridAt(data, pos)) /\ map[pos.x][pos.y].traversable
              /\ ~is_traversable(data, map, pos)
    /\ \E pos \in PosCells : is_traversable(data, map, pos)
    /\ \E pos \in PosCells :
          GridAt(data, pos) = nullopt /\ ~is_traversable(data, map, pos)

\* Pool b has id e where pool a has it: same position, and the grid cell of
\* that position holds e.
StaysPut(a, b, e) ==
    /\ b.positions[e] = a.positions[e]
    /\ GridAt(b, a.positions[e]) = Some(e)

\* C17: while an id e is alive, positions[e] changes only by a successful
\* move_entity of e: create_entity, kill_entity and move_entity of any other
\* id and every failed call leave positions[e] and the grid cell holding e
\* unchanged; kill_entity of e does not write positions[e].
C17_PositionStability ==
    \A e \in AliveIds(data) :
        /\ \A pos \in InputPositions :
              StaysPut(data, create_entity(data, map, pos).data, e)
        /\ \A id \in Ids \ {e} :
              StaysPut(data, kill_entity(data, id).data, e)
        /\ \A e2 \in AliveIds(data) \ {e}, dir \in Directions :
              StaysPut(data, move_entity(data, map, e2, dir).data, e)
        /\ \A dir \in Directions :
              LET r == move_entity(data, map, e, dir) IN
              ~r.moved => StaysPut(data, r.data, e)
        /\ kill_entity(data, e).data.positions[e] = data.positions[e]

\* C17 witness: an entity is alive away from (0,0) while a second alive
\* entity can move, and killing the first leaves its position as it was.
C17_Witness ==
    \E e \in AliveIds(data) :
        /\ data.positions[e] # Pos(0, 0)
        /\ \E e2 \in AliveIds(data) \ {e}, dir \in Directions :
              move_entity(data, map, e2, dir).moved
        /\ kill_entity(data, e).data.positions[e] = data.positions[e]

\* C18: with a tile map that does not change, every alive entity's position
\* is in bounds and on a traversable tile in every reachable state.
C18_OnTraversableTiles ==
    \A e \in AliveIds(data) :
        /\ InBounds(data.positions[e])
        /\ map[data.positions[e].x][data.positions[e].y].traversable

\* C18 witness: an alive entity stands next to a non-traversable tile and
\* next to the edge of the grid, and the moves onto them are refused.
C18_Witness ==
    \E e \in AliveIds(data), d1, d2 \in Directions :
        LET n1 == get_new_position(data.positions[e], d1)
            n2 == get_new_position(data.positions[e], d2)
        IN  /\ InBounds(n1)
            /\ ~map[n1.x][n1.y].traversable
            /\ ~move_entity(data, map, e, d1).moved
            /\ ~InBounds(n2)
            /\ ~move_entity(data, map, e, d2).moved

\* The direction opposite to one of the four compass directions.
Opposite(dir) ==
    CASE dir = "NORTH" -> "SOUTH"
      [] dir = "SOUTH" -> "NORTH"
      [] dir = "EAST"  -> "WEST"
      [] dir = "WEST"  -> "EAST"

\* C19: move round trip: when move_entity(e, dir) returns true for an alive
\* id, move_entity(e, opposite of dir) right after it returns true too and
\* the pool is then what it was before the first move.
C19_MoveRoundTrip ==
    \A e \in AliveIds(data), dir \in {"NORTH", "SOUTH", "EAST", "WEST"} :
        LET r1 == move_entity(data, map, e, dir) IN
        r1.moved =>
            LET r2 == move_entity(r1.data, map, e, Opposite(dir)) IN
            r2.moved /\ r2.data = data

\* C19 witness: with a second entity alive, an entity can move NORTH or
\* SOUTH and another move EAST or WEST is possible.
C19_Witness ==
    /\ data.alive_count >= 2
    /\ \E e \in AliveIds(data), dir \in {"NORTH", "SOUTH"} :
          LET r1 == move_entity(data, map, e, dir) IN
          r1.moved /\ r1.data # data
    /\ \E e \in AliveIds(data), dir \in {"EAST", "WEST"} :
          move_entity(data, map, e, dir).moved

\* C20: every array access stays in bounds in every reachable state, for
\* ids in [0, MAX_ENTITIES) and move_entity of alive ids only: no call so
\* far indexed outside an array, and from the current pool create_entity
\* reads dead_indices[dead_count-1] and writes alive_indices[alive_count]
\* only with 0 <= dead_count-1 and alive_count < MAX_ENTITIES, kill_entity
\* writes dead_indices[dead_count] only with dead_count < MAX_ENTITIES, and
\* the grid cells create_entity, kill_entity and move_entity write are
\* inside the grid.
C20_InBounds ==
    /\ ~oob
    /\ \A pos \in InputPositions :
          LET r == create_entity(data, map, pos) IN
          /\ ~r.oob
          /\ has_value(r.ret) =>
                /\ 0 <= data.dead_count - 1
                /\ data.dead_count - 1 < MAX_ENTITIES
                /\ data.alive_count < MAX_ENTITIES
                /\ InBounds(pos)
    /\ \A id \in Ids :
          /\ ~kill_entity(data, id).oob
          /\ IsAlive(data, id) =>
                /\ data.dead_count < MAX_ENTITIES
                /\ InBounds(data.positions[id])
    /\ \A e \in AliveIds(data), dir \in Directions :
          LET r == move_entity(data, map, e, dir) IN
          /\ ~r.oob
          /\ r.moved =>
                /\ InBounds(data.positions[e])
                /\ InBounds(get_new_position(data.positions[e], dir))

\* C20 witness: the pool is full (alive_count = MAX_ENTITIES, dead_count = 0)
\* after a kill and a re-create, so both lists have been at both ends of
\* their range.
C20_Witness ==
    /\ data.alive_count = MAX_ENTITIES
    /\ data.dead_count = 0
    /\ data.alive_indices[MAX_ENTITIES - 1] # 0
    /\ \A pos \in InputPositions : create_entity(data, map, pos).ret = nullopt

\* ------------------------------------------------ a pool of three entities
\* The pool with room for three entities on a 2 x 2 grid with one
\* non-traversable tile, where kill_entity's loop has slots left to scan
\* after a match.

ScanWorld == World(3, 2, 2)

ScanPositions == CellsOf(ScanWorld) \cup { Pos(-1, 0) }

ScanInit ==
    /\ \E junk \in IdsOf(ScanWorld) :
          data = initialize_in(ScanWorld, EntityDataFreshIn(ScanWorld, junk))
    /\ map = TileMapOf(ScanWorld, {<<1, 1>>})
    /\ freed = NoneFreed
    /\ oob = FALSE
    /\ trace = << >>

ScanCreate ==
    \E pos \in ScanPositions :
        LET r == create_entity_in(ScanWorld, data, map, pos) IN
        /\ data' = r.data
        /\ oob' = (oob \/ r.oob)
        /\ UNCHANGED <<map, freed, trace>>

ScanKill ==
    \E entity_idx \in IdsOf(ScanWorld) :
        LET r == kill_entity_in(ScanWorld, data, entity_idx) IN
        /\ data' = r.data
        /\ oob' = (oob \/ r.oob)
        /\ UNCHANGED <<map, freed, trace>>

ScanMove ==
    \E entity_idx \in AliveIdsIn(ScanWorld, data), dir \in Directions :
        LET r == move_entity_in(ScanWorld, data, map, entity_idx, dir) IN
        /\ data' = r.data
        /\ oob' = (oob \/ r.oob)
        /\ UNCHANGED <<map, freed, trace>>

ScanNext ==
    \/ ScanCreate
    \/ ScanKill
    \/ ScanMove

SpecScan == ScanInit /\ [][ScanNext]_vars

\* kill_entity with a loop that stops at the first match (a break after the
\* swap and the push).
RECURSIVE kill_first_match(_, _, _, _)
kill_first_match(w, d, entity_idx, i) ==
    IF ~(i < d.alive_count)
    THEN d
    ELSE IF d.alive_indices[i] = entity_idx
    THEN kill_match_in(w, d, entity_idx, i).data
    ELSE kill_first_match(w, d, entity_idx, i + 1)

\* How many slots of alive_indices[0 .. alive_count) hold entity_idx when
\* kill_entity's loop reaches them, from index i on.
RECURSIVE Matches(_, _, _, _)
Matches(w, d, entity_idx, i) ==
    IF ~(i < d.alive_count)
    THEN 0
    ELSE IF d.alive_indices[i] = entity_idx
    THEN 1 + Matches(w, kill_match_in(w, d, entity_idx, i).data, entity_idx, i + 1)
    ELSE Matches(w, d, entity_idx, i + 1)

\* C16: in every reachable state and for every id, kill_entity's loop, which
\* keeps scanning after the match and the swap, leaves the same pool as a
\* loop that stops at the first match: no slot is matched a second time,
\* and alive_count and dead_count each change by at most one.
C16_ScanEquivalence ==
    \A id \in IdsOf(ScanWorld) :
        LET r == kill_entity_in(ScanWorld, data, id).data IN
        /\ r = kill_first_match(ScanWorld, data, id, 0)
        /\ Matches(ScanWorld, data, id, 0) <= 1
        /\ data.alive_count - r.alive_count \in {0, 1}
        /\ r.dead_count - data.dead_count \in {0, 1}

\* C16 witness: three entities are alive and the one in slot 0 is killed, so
\* the last entry is swapped into slot 0 and the loop goes on to slot 1.
C16_Witness ==
    /\ data.alive_count = 3
    /\ Matches(ScanWorld, data, data.alive_indices[0], 0) = 1
    /\ kill_entity_in(ScanWorld, data, data.alive_indices[0]).data.alive_indices[0]
          = data.alive_indices[2]
    /\ kill_entity_in(ScanWorld, data, data.alive_indices[0]).data.alive_count = 2

\* ------------------------------------------------------------ the scenario
\* A pool of capacity 5 on a 10 x 10 grid with every tile traversable, driven
\* for at most as many calls as the scenario has, each call and its result
\* recorded in trace.

ScenarioWorld == World(5, 10, 10)

\* A recorded call: its name, arguments and result (fields a call does not
\* use hold the defaults given here).
CreateCall(pos, ret) ==
    [op |-> "create_entity", pos |-> pos, entity_idx |-> 0, dir |-> "OTHER",
     ret |-> ret, moved |-> FALSE]
KillCall(id) ==
    [op |-> "kill_entity", pos |-> Pos(0, 0), entity_idx |-> id, dir |-> "OTHER",
     ret |-> nullopt, moved |-> FALSE]
MoveCall(id, dir, moved) ==
    [op |-> "move_entity", pos |-> Pos(0, 0), entity_idx |-> id, dir |-> dir,
     ret |-> nullopt, moved |-> moved]

\* The calls of the scenario, with the results it expects.
Scenario ==
    << CreateCall(Pos(2, 3), Some(4)),
       CreateCall(Pos(2, 3), nullopt),
       MoveCall(4, "EAST", TRUE),
       KillCall(4),
       CreateCall(Pos(1, 3), Some(4)) >>

\* A call without its result.
Request(c) == [c EXCEPT !.ret = nullopt, !.moved = FALSE]

ScenarioPositions == { Pos(2, 3), Pos(1, 3) }
ScenarioDirections == { "EAST", "WEST" }

ScenarioInit ==
    /\ \E junk \in IdsOf(ScenarioWorld) :
          data = initialize_in(ScenarioWorld, EntityDataFreshIn(ScenarioWorld, junk))
    /\ map = TileMapOf(ScenarioWorld, {})
    /\ freed = NoneFreed
    /\ oob = FALSE
    /\ trace = << >>

ScenarioCreate ==
    /\ Len(trace) < Len(Scenario)
    /\ \E pos \in ScenarioPositions :
          LET r == create_entity_in(ScenarioWorld, data, map, pos) IN
          /\ data' = r.data
          /\ oob' = (oob \/ r.oob)
          /\ trace' = Append(trace, CreateCall(pos, r.ret))
          /\ UNCHANGED <<map, freed>>

ScenarioKill ==
    /\ Len(trace) < Len(Scenario)
    /\ \E entity_idx \in IdsOf(ScenarioWorld) :
          LET r == kill_entity_in(ScenarioWorld, data, entity_idx) IN
          /\ data' = r.data
          /\ oob' = (oob \/ r.oob)
          /\ trace' = Append(trace, KillCall(entity_idx))
          /\ UNCHANGED <<map, freed>>

ScenarioMove ==
    /\ Len(trace) < Len(Scenario)
    /\ \E entity_idx \in AliveIdsIn(ScenarioWorld, data), dir \in ScenarioDirections :
          LET r == move_entity_in(ScenarioWorld, data, map, entity_idx, dir) IN
          /\ data' = r.data
          /\ oob' = (oob \/ r.oob)
          /\ trace' = Append(trace, MoveCall(entity_idx, dir, r.moved))
          /\ UNCHANGED <<map, freed>>

ScenarioNext ==
    \/ ScenarioCreate
    \/ ScenarioKill
    \/ ScenarioMove

SpecScenario == ScenarioInit /\ [][ScenarioNext]_vars

\* The calls made so far are the first calls of the scenario.
OnScenario ==
    \A k \in 1 .. Len(trace) : Request(trace[k]) = Request(Scenario[k])

\* C12: the end-to-end scenario (capacity 5, 10 x 10 grid, all tiles
\* traversable, fresh pool): create_entity((2,3)) returns 4; a second
\* create_entity((2,3)) returns empty; move_entity(4, EAST) returns true and
\* leaves the entity at (1,3); kill_entity(4) leaves cell (1,3) empty with 4
\* on top of dead_indices; create_entity((1,3)) returns 4 again.
C12_Scenario ==
    (Len(trace) >= 1 /\ OnScenario) =>
        LET n == Len(trace) IN
        /\ trace[n] = Scenario[n]
        /\ n = 3 =>
              /\ data.positions[4] = Pos(1, 3)
              /\ data.grid[1][3] = Some(4)
              /\ data.grid[2][3] = nullopt
        /\ n = 4 =>
              /\ data.grid[1][3] = nullopt
              /\ data.dead_count = 5
              /\ data.dead_indices[data.dead_count - 1] = 4
        /\ n = 5 =>
              /\ data.positions[4] = Pos(1, 3)
              /\ data.grid[1][3] = Some(4)

\* C12 witness: the five calls of the scenario have been made, with the
\* results it expects.
C12_Witness ==
    /\ trace = Scenario
    /\ IsAlive(data, 4)
    /\ data.positions[4] = Pos(1, 3)

====
